---- MODULE Spec2Model ----
(***************************************************************************)
(* Model of the rotator serial client (src/src/rotator.rs).                *)
(*                                                                         *)
(* Text is a sequence of one-character strings.  Bytes that are not        *)
(* printable ASCII are written as their two-digit hex code: "0B" (VT),     *)
(* "C3" "A9" (the two bytes of U+00E9) and "FF" (never valid in UTF-8).    *)
(***************************************************************************)
EXTENDS Integers, Sequences, FiniteSets, TLC

VARIABLES
    scope,            \* "transaction": one call, full reply family; "session": several calls
    calls,            \* number of public operations started on this client
    pc,               \* position of the client: "idle", "send", "read", "done"
    op,               \* the public operation in progress, with its arguments
    command,          \* send_command's `command` parameter
    args,             \* send_command's `args` parameter
    wi,               \* index of the next write_all of send_command
    command_string,   \* send_command's local buffer, later validate_parse's parameter
    written,          \* bytes the transport accepted during this call
    devbuf,           \* bytes the device received since the last newline
    pending,          \* results the transport will give to the next reads
    response_string,  \* validate_parse's accumulator
    result,           \* what the public operation returned
    events,           \* transport primitives invoked by this call, in order
    ended,            \* how the call left the transport: "none", "write_err", "bad_chunk", "idle", "read_err"
    own_reply,        \* the read results the device produced for this call's request
    prevFailed        \* some earlier call on this client returned an error

vars == <<scope, calls, pc, op, command, args, wi, command_string, written, devbuf,
          pending, response_string, result, events, ended, own_reply, prevFailed>>

(***************************************************************************)
(* Bounds and program constants                                            *)
(***************************************************************************)
MaxCalls == 2

BufferSize == 2048

(***************************************************************************)
(* Characters and literals                                                 *)
(***************************************************************************)
SP == " "
NL == "\n"

\* ASCII whitespace as understood by split_ascii_whitespace
AsciiWhitespace == {" ", "\t", "\n", "\f", "\r"}

\* White_Space as understood by str::trim (the part of it the model's bytes can form)
WhiteSpace == AsciiWhitespace \cup {"0B"}

DigitChars == <<"0", "1", "2", "3", "4", "5", "6", "7", "8", "9">>

Str_OK == <<"O", "K">>
Str_ERR == <<"E", "R", "R">>
Str_SET == <<"S", "E", "T">>
Str_true == <<"t", "r", "u", "e">>
Str_false == <<"f", "a", "l", "s", "e">>

(***************************************************************************)
(* Wire tokens                                                             *)
(***************************************************************************)
Commands == {"DegreesVertical", "DegreesHorizontal", "CalibrateVertical",
             "CalibrateHorizontal", "Movement", "MoveVerticalSteps",
             "MoveHorizontalSteps", "GetPosition", "GetCalibrated", "GetVersion",
             "Halt"}

CommandToken(c) ==
    CASE c = "DegreesVertical"     -> <<"D", "V", "E", "R">>
      [] c = "DegreesHorizontal"   -> <<"D", "H", "O", "R">>
      [] c = "CalibrateVertical"   -> <<"C", "A", "L", "V">>
      [] c = "CalibrateHorizontal" -> <<"C", "A", "L", "H">>
      [] c = "Movement"            -> <<"M", "O", "V", "C">>
      [] c = "MoveVerticalSteps"   -> <<"M", "O", "V", "V">>
      [] c = "MoveHorizontalSteps" -> <<"M", "O", "V", "H">>
      [] c = "GetPosition"         -> <<"G", "E", "T", "P">>
      [] c = "GetCalibrated"       -> <<"G", "E", "T", "C">>
      [] c = "GetVersion"          -> <<"V", "E", "R", "S">>
      [] c = "Halt"                -> <<"H", "A", "L", "T">>

Directions == {"Up", "Down", "StopVertical", "Left", "Right", "StopHorizontal"}

DirectionToken(d) ==
    CASE d = "Up"             -> <<"U", "P">>
      [] d = "Down"           -> <<"D", "N">>
      [] d = "StopVertical"   -> <<"S", "V">>
      [] d = "Left"           -> <<"L", "T">>
      [] d = "Right"          -> <<"R", "T">>
      [] d = "StopHorizontal" -> <<"S", "H">>

(***************************************************************************)
(* Argument formatting                                                     *)
(***************************************************************************)
RECURSIVE NatToString(_)
NatToString(n) ==
    IF n < 10 THEN <<DigitChars[n + 1]>>
    ELSE Append(NatToString(n \div 10), DigitChars[(n % 10) + 1])

\* i32::to_string
I32ToString(n) == IF n < 0 THEN <<"-">> \o NatToString(0 - n) ELSE NatToString(n)

\* A float argument is a sign bit and a magnitude in thousandths, so that
\* -0.0 is distinct from 0.0 as it is for f32.
F32(neg, milli) == [neg |-> neg, milli |-> milli]

\* f32::neg flips the sign bit
Neg(pos) == [neg |-> ~pos.neg, milli |-> pos.milli]

\* format!("{:0.3}", pos)
Format3(pos) ==
    LET frac == pos.milli % 1000
    IN  (IF pos.neg THEN <<"-">> ELSE <<>>)
        \o NatToString(pos.milli \div 1000)
        \o <<".">>
        \o <<DigitChars[(frac \div 100) + 1],
             DigitChars[((frac \div 10) % 10) + 1],
             DigitChars[(frac % 10) + 1]>>

(***************************************************************************)
(* String functions of the standard library used by validate_parse         *)
(***************************************************************************)
RECURSIVE TrimStart(_)
TrimStart(s) ==
    IF s # <<>> /\ Head(s) \in WhiteSpace THEN TrimStart(Tail(s)) ELSE s

RECURSIVE TrimEnd(_)
TrimEnd(s) ==
    IF s # <<>> /\ s[Len(s)] \in WhiteSpace THEN TrimEnd(SubSeq(s, 1, Len(s) - 1)) ELSE s

\* str::trim
Trim(s) == TrimEnd(TrimStart(s))

\* position of the first element of s that is in set cs, 0 when there is none
RECURSIVE FindFrom(_, _, _)
FindFrom(s, cs, i) ==
    IF i > Len(s) THEN 0
    ELSE IF s[i] \in cs THEN i
    ELSE FindFrom(s, cs, i + 1)

\* the pieces of s from position start on, the current piece beginning at
\* start and i being the position under examination
RECURSIVE SplitFrom(_, _, _, _)
SplitFrom(s, sep, start, i) ==
    IF i > Len(s) THEN <<SubSeq(s, start, Len(s))>>
    ELSE IF s[i] = sep THEN <<SubSeq(s, start, i - 1)>> \o SplitFrom(s, sep, i + 1, i + 1)
    ELSE SplitFrom(s, sep, start, i + 1)

\* str::split(sep): always at least one piece
Split(s, sep) == SplitFrom(s, sep, 1, 1)

\* str::split_terminator('\n'): as split, without a final empty piece
SplitTerminator(s) ==
    LET pieces == Split(s, NL)
    IN  IF pieces[Len(pieces)] = <<>> THEN SubSeq(pieces, 1, Len(pieces) - 1)
        ELSE pieces

\* as Splitn2, but splitting at every space and keeping two pieces
Splitn2EverySpace(line) ==
    LET pieces == Split(line, SP)
    IN  IF Len(pieces) = 1 THEN pieces ELSE <<pieces[1], pieces[2]>>

\* str::splitn(2, ' ')
Splitn2(line) ==
    LET i == FindFrom(line, {SP}, 1)
    IN  IF i = 0 THEN <<line>>
        ELSE <<SubSeq(line, 1, i - 1), SubSeq(line, i + 1, Len(line))>>

\* the tokens of s from position i on; start is the position where the
\* current token began, 0 between tokens
RECURSIVE TokensFrom(_, _, _)
TokensFrom(s, start, i) ==
    IF i > Len(s)
    THEN IF start = 0 THEN <<>> ELSE <<SubSeq(s, start, Len(s))>>
    ELSE IF s[i] \in AsciiWhitespace
    THEN IF start = 0 THEN TokensFrom(s, 0, i + 1)
         ELSE <<SubSeq(s, start, i - 1)>> \o TokensFrom(s, 0, i + 1)
    ELSE TokensFrom(s, IF start = 0 THEN i ELSE start, i + 1)

\* str::split_ascii_whitespace
SplitAsciiWhitespace(s) == TokensFrom(s, 0, 1)

\* str::from_utf8 succeeds: every byte is ASCII, or a two-byte lead followed
\* by a continuation byte
Utf8Lead2 == {"C3"}
Utf8Cont == {"A9"}
Utf8Never == {"FF"}

RECURSIVE Utf8ValidFrom(_, _)
Utf8ValidFrom(bytes, i) ==
    IF i > Len(bytes) THEN TRUE
    ELSE IF bytes[i] \in Utf8Lead2
         THEN i + 1 <= Len(bytes) /\ bytes[i + 1] \in Utf8Cont /\ Utf8ValidFrom(bytes, i + 2)
    ELSE IF bytes[i] \in Utf8Cont \cup Utf8Never THEN FALSE
    ELSE Utf8ValidFrom(bytes, i + 1)

Utf8Valid(bytes) == Utf8ValidFrom(bytes, 1)

(***************************************************************************)
(* Value parsing                                                           *)
(***************************************************************************)
\* as ParseBool, but taking every token other than "true" as false
ParseBoolLoose(tok) == [ok |-> TRUE, val |-> tok = Str_true]

\* <bool as FromStr>::from_str: exactly "true" or "false"
ParseBool(tok) ==
    IF tok = Str_true THEN [ok |-> TRUE, val |-> TRUE]
    ELSE IF tok = Str_false THEN [ok |-> TRUE, val |-> FALSE]
    ELSE [ok |-> FALSE, val |-> "provided string was not true or false"]

DigitSet == {DigitChars[i] : i \in 1..10}

DigitValue(ch) == CHOOSE d \in 0..9 : DigitChars[d + 1] = ch

RECURSIVE DigitsToNat(_)
DigitsToNat(ds) ==
    IF ds = <<>> THEN 0
    ELSE 10 * DigitsToNat(SubSeq(ds, 1, Len(ds) - 1)) + DigitValue(ds[Len(ds)])

AllDigits(ds) == \A i \in 1..Len(ds) : ds[i] \in DigitSet

\* first three fractional digits, as thousandths
FracToMilli(ds) ==
    LET d(i) == IF i <= Len(ds) THEN DigitValue(ds[i]) ELSE 0
    IN  100 * d(1) + 10 * d(2) + d(3)

\* <f32 as FromStr>::from_str on decimal literals without exponent:
\* [+-] digits [. digits], with at least one digit
ParseF32(tok) ==
    IF tok = <<>> THEN [ok |-> FALSE, val |-> "cannot parse float from empty string"]
    ELSE
      LET signed == Head(tok) \in {"+", "-"}
          body == IF signed THEN Tail(tok) ELSE tok
          dot == FindFrom(body, {"."}, 1)
          ip == IF dot = 0 THEN body ELSE SubSeq(body, 1, dot - 1)
          fp == IF dot = 0 THEN <<>> ELSE SubSeq(body, dot + 1, Len(body))
      IN  IF AllDigits(ip) /\ AllDigits(fp) /\ Len(ip) + Len(fp) > 0
          THEN [ok |-> TRUE,
                val |-> F32(Head(tok) = "-", 1000 * DigitsToNat(ip) + FracToMilli(fp))]
          ELSE [ok |-> FALSE, val |-> "invalid float literal"]

(***************************************************************************)
(* Results                                                                 *)
(***************************************************************************)
Res(kind, val) == [kind |-> kind, val |-> val]

\* `let v = e;` followed by F(v): e is evaluated once and F works on its value
With(e, F(_)) == CHOOSE out \in {F(v) : v \in {e}} : TRUE

NoResult == Res("none", <<>>)
Panic == Res("Panic", <<>>)
InvalidResponse == Res("InvalidResponse", <<>>)
ExpectedValue == Res("ExpectedValue", <<>>)
IOError == Res("IOError", <<>>)
ResponseError(msg) == Res("ResponseError", <<msg>>)
ParseError(detail) == Res("ParseError", <<detail>>)
Ok(val) == Res("Ok", val)

\* Ok(None) and Ok(Some(values)) of validate_parse
OkNone == Res("None", <<>>)
OkSome(values) == Res("Some", values)

(***************************************************************************)
(* validate_parse after the read loop                                      *)
(***************************************************************************)
\* as EchoMatches, but accepting any line that starts with the request
EchoMatchesPrefix(line0, cmd_string) ==
    LET req == Trim(cmd_string)
    IN  Len(line0) >= Len(req) /\ SubSeq(line0, 1, Len(req)) = req

\* response_lines[0] != command_string.trim()
EchoMatches(line0, cmd_string) == line0 = Trim(cmd_string)

\* the match on response_list[0] and the split of the return values;
\* indexing response_list[1] aborts when the status line holds no space
StatusOutcome(response_list) ==
    IF response_list[1] = Str_ERR
    THEN IF Len(response_list) < 2 THEN Panic ELSE ResponseError(response_list[2])
    ELSE IF response_list[1] # Str_OK THEN InvalidResponse
    ELSE IF Len(response_list) < 2 THEN Panic
    ELSE LET values == SplitAsciiWhitespace(response_list[2])
         IN  IF values = <<>> THEN OkNone ELSE OkSome(values)

\* as ValidateText, but taking the status from the last line received
ValidateTextLastLine(resp, cmd_string) ==
    With(SplitTerminator(resp), LAMBDA response_lines :
        IF Len(response_lines) < 1 THEN Panic
        ELSE IF ~EchoMatches(response_lines[1], cmd_string) THEN InvalidResponse
        ELSE IF Len(response_lines) < 2 THEN Panic
        ELSE With(Splitn2(response_lines[Len(response_lines)]), StatusOutcome))

\* validate_parse from the split into lines on; indexing response_lines[0]
\* and response_lines[1] aborts when the line is missing
ValidateText(resp, cmd_string) ==
    With(SplitTerminator(resp), LAMBDA response_lines :
        IF Len(response_lines) < 1 THEN Panic
        ELSE IF ~EchoMatches(response_lines[1], cmd_string) THEN InvalidResponse
        ELSE IF Len(response_lines) < 2 THEN Panic
        ELSE With(Splitn2(response_lines[2]), StatusOutcome))

IsErr(r) == r.kind \notin {"None", "Some"}

(***************************************************************************)
(* Public operations: what each does with validate_parse's result          *)
(***************************************************************************)
UnitOps == {"set_position_vertical", "set_position_horizontal", "calibrate_vertical",
            "calibrate_horizontal", "move_direction", "move_vertical_steps",
            "move_horizontal_steps", "halt"}

ValueOps == {"position", "calibrated", "version"}

DecodeUnit(r) == IF IsErr(r) THEN r ELSE Ok(<<>>)

\* as DecodePosition, but undoing on the horizontal value the negation that
\* set_position_horizontal applies
DecodePositionNegated(r) ==
    IF IsErr(r) THEN r
    ELSE IF r.kind = "None" THEN ExpectedValue
    ELSE IF Len(r.val) # 2 THEN InvalidResponse
    ELSE LET v == ParseF32(r.val[1])
             h == ParseF32(r.val[2])
         IN  IF ~v.ok THEN ParseError(v.val)
             ELSE IF ~h.ok THEN ParseError(h.val)
             ELSE Ok(<<v.val, Neg(h.val)>>)

DecodePosition(r) ==
    IF IsErr(r) THEN r
    ELSE IF r.kind = "None" THEN ExpectedValue
    ELSE IF Len(r.val) # 2 THEN InvalidResponse
    ELSE LET v == ParseF32(r.val[1])
             h == ParseF32(r.val[2])
         IN  IF ~v.ok THEN ParseError(v.val)
             ELSE IF ~h.ok THEN ParseError(h.val)
             ELSE Ok(<<v.val, h.val>>)

DecodeCalibrated(r) ==
    IF IsErr(r) THEN r
    ELSE IF r.kind = "None" THEN ExpectedValue
    ELSE LET b == ParseBool(r.val[1])
         IN  IF b.ok THEN Ok(<<b.val>>) ELSE ParseError(b.val)

DecodeVersion(r) ==
    IF IsErr(r) THEN r
    ELSE IF r.kind = "None" THEN ExpectedValue
    ELSE Ok(<<r.val[1]>>)

Decode(name, r) ==
    CASE name = "position"   -> DecodePosition(r)
      [] name = "calibrated" -> DecodeCalibrated(r)
      [] name = "version"    -> DecodeVersion(r)
      [] OTHER               -> DecodeUnit(r)

\* the command and the arguments each public operation hands to send_command
OpCommand(o) ==
    CASE o.name = "set_position_vertical"   -> "DegreesVertical"
      [] o.name = "set_position_horizontal" -> "DegreesHorizontal"
      [] o.name = "calibrate_vertical"      -> "CalibrateVertical"
      [] o.name = "calibrate_horizontal"    -> "CalibrateHorizontal"
      [] o.name = "move_direction"          -> "CalibrateHorizontal"
      [] o.name = "move_vertical_steps"     -> "MoveVerticalSteps"
      [] o.name = "move_horizontal_steps"   -> "MoveHorizontalSteps"
      [] o.name = "position"                -> "GetPosition"
      [] o.name = "calibrated"              -> "GetCalibrated"
      [] o.name = "version"                 -> "GetVersion"
      [] o.name = "halt"                    -> "Halt"

\* as OpArgs, but sending the horizontal position without negating it
OpArgsNoNeg(o) ==
    CASE o.name = "set_position_vertical"   -> <<Format3(o.pos)>>
      [] o.name = "set_position_horizontal" -> <<Format3(o.pos)>>
      [] o.name = "calibrate_vertical"      -> IF o.set THEN <<Str_SET>> ELSE <<>>
      [] o.name = "move_direction"          -> <<DirectionToken(o.direction)>>
      [] o.name = "move_vertical_steps"     -> <<I32ToString(o.steps)>>
      [] o.name = "move_horizontal_steps"   -> <<I32ToString(o.steps)>>
      [] OTHER                              -> <<>>

OpArgs(o) ==
    CASE o.name = "set_position_vertical"   -> <<Format3(o.pos)>>
      [] o.name = "set_position_horizontal" -> <<Format3(Neg(o.pos))>>
      [] o.name = "calibrate_vertical"      -> IF o.set THEN <<Str_SET>> ELSE <<>>
      [] o.name = "move_direction"          -> <<DirectionToken(o.direction)>>
      [] o.name = "move_vertical_steps"     -> <<I32ToString(o.steps)>>
      [] o.name = "move_horizontal_steps"   -> <<I32ToString(o.steps)>>
      [] OTHER                              -> <<>>

\* the write_all calls of send_command, in order
RECURSIVE ArgSegments(_)
ArgSegments(as) ==
    IF as = <<>> THEN <<>>
    ELSE <<<<SP>>, Head(as)>> \o ArgSegments(Tail(as))

\* as Segments, but without the space before each argument
SegmentsNoSpace(c, as) == <<CommandToken(c)>> \o as \o <<<<NL>>>>

Segments(c, as) == <<CommandToken(c)>> \o ArgSegments(as) \o <<<<NL>>>>

(***************************************************************************)
(* Inputs: the operations a caller may start                               *)
(***************************************************************************)
OpRec(name, pos, steps, set, direction) ==
    [name |-> name, pos |-> pos, steps |-> steps, set |-> set, direction |-> direction]

PlainOp(name) == OpRec(name, F32(FALSE, 0), 0, FALSE, "Up")

Positions == {F32(FALSE, 0), F32(FALSE, 30000), F32(TRUE, 1500)}

StepCounts == {0, 12, -7}

TransactionOps ==
    {PlainOp(n) : n \in {"calibrate_horizontal", "position", "calibrated", "version", "halt"}}
    \cup {OpRec(n, p, 0, FALSE, "Up") :
            n \in {"set_position_vertical", "set_position_horizontal"}, p \in Positions}
    \cup {OpRec(n, F32(FALSE, 0), k, FALSE, "Up") :
            n \in {"move_vertical_steps", "move_horizontal_steps"}, k \in StepCounts}
    \cup {OpRec("calibrate_vertical", F32(FALSE, 0), 0, b, "Up") : b \in BOOLEAN}
    \cup {OpRec("move_direction", F32(FALSE, 0), 0, FALSE, d) : d \in Directions}

SessionOps == {PlainOp("halt"), PlainOp("version")}

OpsOf(sc) == IF sc = "transaction" THEN TransactionOps ELSE SessionOps

CallLimit(sc) == IF sc = "transaction" THEN 1 ELSE MaxCalls

(***************************************************************************)
(* Inputs: what the device and the transport answer                        *)
(***************************************************************************)
\* one result of a transport read: bytes, nothing within the timeout, or an I/O error
Data(b) == [res |-> "data", bytes |-> b]
Idle == [res |-> "idle", bytes |-> <<>>]
Fault == [res |-> "err", bytes |-> <<>>]

Words2(a, b) == a \o <<SP>> \o b
Words3(a, b, c) == a \o <<SP>> \o b \o <<SP>> \o c

Str_WRONG == <<"W", "R", "O", "N", "G">>
Str_JUNK == <<"j", "u", "n", "k">>
Str_motor == <<"m", "o", "t", "o", "r">>
Str_stalled == <<"s", "t", "a", "l", "l", "e", "d">>
Str_maybe == <<"m", "a", "y", "b", "e">>
Str_v1 == <<"v", "1">>
Str_12_500 == Format3(F32(FALSE, 12500))
Str_m3_250 == Format3(F32(TRUE, 3250))

OkStatusLines ==
    { Str_OK,
      Str_OK \o <<SP>>,
      Str_OK \o <<SP, SP>>,
      Str_OK \o <<SP, "\t">>,
      Str_OK \o <<"\t">> \o Str_true,
      Words2(Str_OK, Str_true),
      Words2(Str_OK, Str_false),
      Words2(Str_OK, Str_maybe),
      Words3(Str_OK, Str_true, Str_false),
      Words2(Str_OK, Str_12_500),
      Words3(Str_OK, Str_12_500, Str_m3_250),
      Words3(Str_OK, Str_12_500, Str_maybe),
      Words3(Str_OK, Str_maybe, Str_12_500),
      Words3(Str_OK, Str_12_500, Str_m3_250) \o <<SP, "7">>,
      Words3(Str_OK, <<"+", "1">>, <<".", "5">>),
      Words3(Str_OK, <<"1", ".">>, <<".">>),
      Str_OK \o <<SP, SP>> \o Str_v1 \o <<"\t">> \o Str_JUNK,
      Words2(Str_OK, <<"C3", "A9">>) }

ErrStatusLines ==
    { Str_ERR,
      Str_ERR \o <<SP>>,
      Words3(Str_ERR, Str_motor, Str_stalled),
      Str_ERR \o <<SP, SP>> \o Str_motor,
      Str_ERR \o <<"\t">> \o Str_motor }

OtherStatusLines ==
    { <<>>,
      <<SP>> \o Str_OK,
      <<"o", "k">> \o <<SP>> \o Str_true,
      Str_OK \o <<"A", "Y">> \o <<SP>> \o Str_true,
      Str_WRONG }

StatusLines == OkStatusLines \cup ErrStatusLines \cup OtherStatusLines

\* status lines that also get split, interrupted and garbled deliveries
CoreStatusLines ==
    { Str_OK \o <<SP>>,
      Words2(Str_OK, Str_true),
      Words3(Str_OK, Str_12_500, Str_m3_250),
      Words2(Str_OK, <<"C3", "A9">>),
      Words3(Str_ERR, Str_motor, Str_stalled) }

Line(l) == l \o <<NL>>

\* line 0 candidates when the device received line e
EchoLines(e) == {e, Str_WRONG, e \o <<"\r">>, e \o <<SP>>}

ReplyTexts(e) ==
    { <<>>, e, Line(e), Line(Str_WRONG), <<NL>> }
    \cup { Line(l0) \o Line(st) : l0 \in EchoLines(e), st \in StatusLines }
    \cup { Line(e) \o Line(st) \o Line(Str_JUNK) : st \in StatusLines }
    \cup { Line(e) \o st : st \in CoreStatusLines }

CoreTexts(e) == { Line(e) \o Line(st) : st \in CoreStatusLines }

Whole(t) == IF t = <<>> THEN <<>> ELSE <<Data(t)>>

\* where a reply text is cut when it arrives in two reads
CutPoints(t) == {k \in {2, Len(t) - 4, Len(t) - 2, Len(t) - 1} : 0 < k /\ k < Len(t)}

Cut(t, k, between) ==
    <<Data(SubSeq(t, 1, k))>> \o between \o <<Data(SubSeq(t, k + 1, Len(t)))>>

TransactionReplies(e) ==
    { Whole(t) : t \in ReplyTexts(e) }
    \cup UNION { { Cut(t, k, <<>>) : k \in CutPoints(t) } : t \in CoreTexts(e) }
    \cup UNION { { Cut(t, k, <<b>>) : k \in {2, Len(t) - 1}, b \in {Idle, Fault} } :
                 t \in CoreTexts(e) }
    \cup { <<b, Data(t)>> : t \in CoreTexts(e), b \in {Idle, Fault, Data(<<"FF">>)} }
    \cup { <<Data(t), b>> : t \in CoreTexts(e), b \in {Fault, Data(<<"FF">>)} }
    \cup { <<Data(t), b, Data(Line(Str_JUNK))>> : t \in CoreTexts(e), b \in {Fault, Data(<<"FF">>)} }

SessionStatusLines ==
    { Str_OK \o <<SP>>, Words2(Str_OK, Str_v1), Words3(Str_ERR, Str_motor, Str_stalled) }

SessionTexts(e) == { Line(e) \o Line(st) : st \in SessionStatusLines }

SessionReplies(e) ==
    { Whole(t) : t \in SessionTexts(e) \cup {Line(Str_WRONG) \o Line(Str_OK \o <<SP>>)} }
    \cup { <<b, Data(t)>> : t \in SessionTexts(e), b \in {Fault, Data(<<"FF">>)} }
    \cup { Cut(Line(e) \o Line(Str_OK \o <<SP>>), 2, <<Idle>>) }

Replies(sc, e) == IF sc = "transaction" THEN TransactionReplies(e) ELSE SessionReplies(e)

\* the text a sequence of read results carries
RECURSIVE TextOf(_)
TextOf(script) ==
    IF script = <<>> THEN <<>>
    ELSE Head(script).bytes \o TextOf(Tail(script))

(***************************************************************************)
(* The client                                                              *)
(***************************************************************************)
Init ==
    /\ scope \in {"transaction", "session"}
    /\ calls = 0
    /\ pc = "idle"
    /\ op = PlainOp("halt")
    /\ command = "Halt"
    /\ args = <<>>
    /\ wi = 1
    /\ command_string = <<>>
    /\ written = <<>>
    /\ devbuf = <<>>
    /\ pending = <<>>
    /\ response_string = <<>>
    /\ result = NoResult
    /\ events = <<>>
    /\ ended = "none"
    /\ own_reply = <<>>
    /\ prevFailed = FALSE

\* A caller starts a public operation: the operation builds its arguments
\* and enters send_command.  A call that aborted is followed by no other.
Call(o) ==
    /\ pc \in {"idle", "done"}
    /\ result.kind # "Panic"
    /\ calls < CallLimit(scope)
    /\ pc' = "send"
    /\ calls' = calls + 1
    /\ op' = o
    /\ command' = OpCommand(o)
    /\ args' = OpArgs(o)
    /\ wi' = 1
    /\ command_string' = <<>>
    /\ written' = <<>>
    /\ response_string' = <<>>
    /\ result' = NoResult
    /\ events' = <<>>
    /\ ended' = "none"
    /\ own_reply' = <<>>
    /\ prevFailed' = (pc = "done" /\ result.kind # "Ok")
    /\ UNCHANGED <<scope, devbuf, pending>>

\* One write_all of send_command succeeds.  The newline completes the
\* request: the device answers the line it received.
WriteOk ==
    /\ pc = "send"
    /\ LET segs == Segments(command, args)
           seg == segs[wi]
       IN  /\ written' = written \o seg
           /\ command_string' = command_string \o seg
           /\ events' = Append(events, "write")
           /\ wi' = wi + 1
           /\ IF wi < Len(segs)
              THEN /\ devbuf' = devbuf \o seg
                   /\ UNCHANGED <<pc, pending, own_reply>>
              ELSE /\ devbuf' = <<>>
                   /\ pc' = "read"
                   /\ \E script \in Replies(scope, devbuf) :
                        /\ pending' = pending \o script
                        /\ own_reply' = script
    /\ UNCHANGED <<scope, calls, op, command, args, response_string, result, ended,
                   prevFailed>>

\* as WriteFail, but the error is dropped and the operation goes on to read
WriteFailIgnored ==
    /\ pc = "send"
    /\ LET seg == Segments(command, args)[wi]
       IN  \E k \in 0..(Len(seg) - 1) :
             /\ written' = written \o SubSeq(seg, 1, k)
             /\ devbuf' = devbuf \o SubSeq(seg, 1, k)
    /\ events' = Append(events, "write_err")
    /\ ended' = "write_err"
    /\ pc' = "read"
    /\ UNCHANGED <<scope, calls, op, command, args, wi, command_string, pending,
                   response_string, result, own_reply, prevFailed>>

\* One write_all of send_command fails after the transport took k bytes of
\* the segment: `?` returns the error from send_command and from the operation.
WriteFail ==
    /\ pc = "send"
    /\ LET seg == Segments(command, args)[wi]
       IN  \E k \in 0..(Len(seg) - 1) :
             /\ written' = written \o SubSeq(seg, 1, k)
             /\ devbuf' = devbuf \o SubSeq(seg, 1, k)
    /\ events' = Append(events, "write_err")
    /\ result' = IOError
    /\ ended' = "write_err"
    /\ pc' = "done"
    /\ UNCHANGED <<scope, calls, op, command, args, wi, command_string, pending,
                   response_string, own_reply, prevFailed>>

\* what a read into the buffer takes from the transport's next data
NumRead(bytes) == IF Len(bytes) < BufferSize THEN Len(bytes) ELSE BufferSize

AfterRead(queue) ==
    LET bytes == Head(queue).bytes
        n == NumRead(bytes)
    IN  IF n < Len(bytes) THEN <<Data(SubSeq(bytes, n + 1, Len(bytes)))>> \o Tail(queue)
        ELSE Tail(queue)

\* as ReadChunk, but putting the chunk in front of the accumulated text
ReadChunkPrepend ==
    /\ pc = "read"
    /\ pending # <<>>
    /\ Head(pending).res = "data"
    /\ LET chunk == SubSeq(Head(pending).bytes, 1, NumRead(Head(pending).bytes))
       IN  /\ Utf8Valid(chunk)
           /\ response_string' = chunk \o response_string
    /\ pending' = AfterRead(pending)
    /\ events' = Append(events, "read")
    /\ UNCHANGED <<scope, calls, pc, op, command, args, wi, command_string, written,
                   devbuf, result, ended, own_reply, prevFailed>>

\* The loop reads a chunk that is valid text and appends it.
ReadChunk ==
    /\ pc = "read"
    /\ pending # <<>>
    /\ Head(pending).res = "data"
    /\ LET chunk == SubSeq(Head(pending).bytes, 1, NumRead(Head(pending).bytes))
       IN  /\ Utf8Valid(chunk)
           /\ response_string' = response_string \o chunk
    /\ pending' = AfterRead(pending)
    /\ events' = Append(events, "read")
    /\ UNCHANGED <<scope, calls, pc, op, command, args, wi, command_string, written,
                   devbuf, result, ended, own_reply, prevFailed>>

\* as ReadBadChunk, but keeping the bytes and reading on, so that a character
\* split across two reads is put together again
ReadBadChunkBuffered ==
    /\ pc = "read"
    /\ pending # <<>>
    /\ Head(pending).res = "data"
    /\ LET chunk == SubSeq(Head(pending).bytes, 1, NumRead(Head(pending).bytes))
       IN  /\ ~Utf8Valid(chunk)
           /\ response_string' = response_string \o chunk
    /\ pending' = AfterRead(pending)
    /\ events' = Append(events, "read")
    /\ UNCHANGED <<scope, calls, pc, op, command, args, wi, command_string, written,
                   devbuf, result, ended, own_reply, prevFailed>>

\* The loop reads a chunk that is not valid text: return Err(InvalidResponse).
ReadBadChunk ==
    /\ pc = "read"
    /\ pending # <<>>
    /\ Head(pending).res = "data"
    /\ ~Utf8Valid(SubSeq(Head(pending).bytes, 1, NumRead(Head(pending).bytes)))
    /\ pending' = AfterRead(pending)
    /\ events' = Append(events, "read")
    /\ result' = InvalidResponse
    /\ ended' = "bad_chunk"
    /\ pc' = "done"
    /\ UNCHANGED <<scope, calls, op, command, args, wi, command_string, written,
                   devbuf, response_string, own_reply, prevFailed>>

\* A read returns Ok(0): the loop ends, the response is validated and the
\* operation decodes the values.
ReadZero ==
    /\ pc = "read"
    /\ IF pending = <<>> THEN TRUE ELSE Head(pending).res = "idle"
    /\ pending' = IF pending = <<>> THEN <<>> ELSE Tail(pending)
    /\ events' = Append(events, "read")
    /\ result' = With(ValidateText(response_string, command_string),
                       LAMBDA r : Decode(op.name, r))
    /\ ended' = "idle"
    /\ pc' = "done"
    /\ UNCHANGED <<scope, calls, op, command, args, wi, command_string, written,
                   devbuf, response_string, own_reply, prevFailed>>

\* A read returns Err: `while let Ok(..)` does not match, the loop ends and
\* the function goes on as after a read of zero bytes.
ReadFail ==
    /\ pc = "read"
    /\ pending # <<>>
    /\ Head(pending).res = "err"
    /\ pending' = Tail(pending)
    /\ events' = Append(events, "read_err")
    /\ result' = With(ValidateText(response_string, command_string),
                       LAMBDA r : Decode(op.name, r))
    /\ ended' = "read_err"
    /\ pc' = "done"
    /\ UNCHANGED <<scope, calls, op, command, args, wi, command_string, written,
                   devbuf, response_string, own_reply, prevFailed>>

Next ==
    \/ \E o \in OpsOf(scope) : Call(o)
    \/ WriteOk
    \/ WriteFail
    \/ ReadChunk
    \/ ReadBadChunk
    \/ ReadZero
    \/ ReadFail

Spec == Init /\ [][Next]_vars

\* Every write_all and every read of the transport returns: the port has a
\* finite timeout, so a call that has started keeps taking steps.
TransportStep == WriteOk \/ WriteFail \/ ReadChunk \/ ReadBadChunk \/ ReadZero \/ ReadFail

FairSpec == Init /\ [][Next]_vars /\ WF_vars(TransportStep)

(***************************************************************************)
(* Properties                                                              *)
(***************************************************************************)
\* the request line that was sent, without its newline
RequestLine == SubSeq(command_string, 1, Len(command_string) - 1)

\* the lines of the response the call accumulated
ResponseLines == SplitTerminator(response_string)

\* the call read until the transport went idle and returned
Validated == pc = "done" /\ ended = "idle"

\* the request was handed to the transport without a write error
Sent == pc \in {"read", "done"} /\ ended # "write_err"

StartsWith(s, prefix) ==
    Len(s) >= Len(prefix) /\ SubSeq(s, 1, Len(prefix)) = prefix

IsPrefixOf(p, s) == StartsWith(s, p)

RECURSIVE SpacedArgs(_)
SpacedArgs(as) ==
    IF as = <<>> THEN <<>>
    ELSE <<SP>> \o Head(as) \o SpacedArgs(Tail(as))

\* TOKEN, then a space and the text of each argument in order, then a newline
ExpectedRequest(c, as) == CommandToken(c) \o SpacedArgs(as) \o <<NL>>

ReadEvents == {"read", "read_err"}
WriteEvents == {"write", "write_err"}

\* C1: when the response is the exact echo of the written request followed
\* by the status line OK with no payload, every zero-value operation
\* returns success.
C1_ZeroValueOpSucceedsOnBareOk ==
    (/\ Validated
     /\ op.name \in UnitOps
     /\ response_string = Line(RequestLine) \o Line(Str_OK))
    => result = Ok(<<>>)

\* C2: when the accumulated response has fewer than two lines, the call
\* fails with InvalidResponse.
C2_FewerThanTwoLinesInvalid ==
    (Validated /\ Len(ResponseLines) < 2) => result = InvalidResponse

\* C3: once send_command has returned, the bytes written to the transport
\* are the 4-character token, a space and the text of each argument in
\* order, and a newline; the returned request string equals those bytes.
C3_RequestBytes ==
    Sent => /\ \A c \in Commands : Len(CommandToken(c)) = 4
            /\ written = ExpectedRequest(command, args)
            /\ command_string = written

C3_Witness ==
    /\ pc = "read"
    /\ Len(args) = 1
    /\ written = ExpectedRequest(command, args)

\* C4: when line 0 of the response differs from the request line that was
\* sent, the call fails with InvalidResponse whatever the later lines hold.
C4_EchoMismatchInvalid ==
    (/\ Validated
     /\ Len(ResponseLines) >= 1
     /\ ResponseLines[1] # RequestLine)
    => result = InvalidResponse

C4_Witness ==
    /\ Validated
    /\ Len(ResponseLines) = 2
    /\ ResponseLines[1] = RequestLine \o <<SP>>
    /\ ResponseLines[2] = Words2(Str_OK, Str_true)
    /\ result = InvalidResponse

\* C5: with a correct echo line and a status line "ERR <message>", the call
\* fails with ResponseError carrying everything after the first space of
\* the status line, untokenized.
C5_ErrMessageVerbatim ==
    (/\ Validated
     /\ Len(ResponseLines) >= 2
     /\ ResponseLines[1] = RequestLine
     /\ StartsWith(ResponseLines[2], Str_ERR \o <<SP>>))
    => result = ResponseError(SubSeq(ResponseLines[2], 5, Len(ResponseLines[2])))

C5_Witness ==
    /\ Validated
    /\ Len(ResponseLines) >= 2
    /\ ResponseLines[1] = RequestLine
    /\ ResponseLines[2] = Words3(Str_ERR, Str_motor, Str_stalled)
    /\ result = ResponseError(Words2(Str_motor, Str_stalled))

\* C6: move_direction transmits the request line "MOVC <DIR>" for every
\* direction.
C6_MoveDirectionSendsMOVC ==
    (Sent /\ op.name = "move_direction")
    => written = Line(Words2(CommandToken("Movement"), DirectionToken(op.direction)))

\* the device answered this call's request in one piece with a correct echo
\* and a status line made of OK or ERR, a space and a payload
OwnReplyWellFormed ==
    /\ Len(own_reply) = 1
    /\ own_reply[1].res = "data"
    /\ LET lines == SplitTerminator(TextOf(own_reply))
       IN  /\ Len(lines) = 2
           /\ lines[1] = RequestLine
           /\ Len(Splitn2(lines[2])) = 2
           /\ Splitn2(lines[2])[1] \in {Str_OK, Str_ERR}

\* C7: after a call that failed, a call whose own reply is a correct echo
\* and a well-formed status line returns what that reply alone determines.
C7_FailureScopedToCall ==
    (pc = "done" /\ prevFailed /\ OwnReplyWellFormed)
    => result = Decode(op.name, ValidateText(TextOf(own_reply), command_string))

\* C8: when a write or a read of the transport fails during an operation,
\* the operation returns the I/O error.
C8_IoErrorPropagated ==
    (pc = "done" /\ ended \in {"write_err", "read_err"}) => result = IOError

\* C9: within one call the whole request line is written before any read,
\* a failed write is the last transport event of the call, nothing is
\* written once reading has begun, and the request is written once.
C9_TransactionOrder ==
    /\ \A i \in 1..Len(events) : \A j \in 1..Len(events) :
         (i < j /\ events[i] \in ReadEvents) => events[j] \notin WriteEvents
    /\ \A i \in 1..Len(events) : events[i] = "write_err" => i = Len(events)
    /\ (\E i \in 1..Len(events) : events[i] \in ReadEvents)
         => written = ExpectedRequest(command, args)
    /\ IsPrefixOf(written, ExpectedRequest(command, args))
    /\ (pc = "done" /\ ended # "write_err") => written = ExpectedRequest(command, args)

C9_Witness ==
    /\ pc = "done"
    /\ Len(args) = 1
    /\ events = <<"write", "write", "write", "write", "read", "read", "read">>

\* C10: for position, calibrated and version, a correct echo followed by a
\* status line that is OK alone or OK and whitespace only fails with
\* ExpectedValue.
C10_NoValueExpectedValue ==
    (/\ Validated
     /\ op.name \in ValueOps
     /\ Len(ResponseLines) >= 2
     /\ ResponseLines[1] = RequestLine
     /\ StartsWith(ResponseLines[2], Str_OK)
     /\ \A i \in 3..Len(ResponseLines[2]) : ResponseLines[2][i] \in AsciiWhitespace)
    => result = ExpectedValue

\* the response has a correct echo line and a status line
EchoedStatus ==
    /\ Validated
    /\ Len(ResponseLines) >= 2
    /\ ResponseLines[1] = RequestLine

\* the value tokens of a status line that begins with "OK "
OkTokens(line) == SplitAsciiWhitespace(SubSeq(line, 4, Len(line)))

\* C11: with a correct echo and the status line "ERR" with nothing after
\* it, the call fails with InvalidResponse.
C11_BareErrInvalid ==
    (EchoedStatus /\ ResponseLines[2] = Str_ERR) => result = InvalidResponse

\* C12: calibrated does not return success when the OK status line carries
\* two or more value tokens.
C12_CalibratedNeedsOneToken ==
    (/\ EchoedStatus
     /\ op.name = "calibrated"
     /\ StartsWith(ResponseLines[2], Str_OK \o <<SP>>)
     /\ Len(OkTokens(ResponseLines[2])) >= 2)
    => result.kind # "Ok"

\* the number tokens the device sends in this model, with their values
NumberTable ==
    { <<Str_12_500, F32(FALSE, 12500)>>,
      <<Str_m3_250, F32(TRUE, 3250)>>,
      <<<<"7">>, F32(FALSE, 7000)>>,
      <<<<"+", "1">>, F32(FALSE, 1000)>>,
      <<<<".", "5">>, F32(FALSE, 500)>>,
      <<<<"1", ".">>, F32(FALSE, 1000)>> }

IsNumber(tok) == \E e \in NumberTable : e[1] = tok

NumberValue(tok) == (CHOOSE e \in NumberTable : e[1] = tok)[2]

\* C13: position with a correct echo and status OK returns the two values
\* in wire order and unchanged when both tokens are numbers, fails with
\* InvalidResponse for one or for three or more tokens, and fails with
\* ParseError for two tokens of which one is not a number.
C13_PositionDecoding ==
    (/\ EchoedStatus
     /\ op.name = "position"
     /\ StartsWith(ResponseLines[2], Str_OK \o <<SP>>))
    => LET toks == OkTokens(ResponseLines[2])
       IN  /\ (Len(toks) = 2 /\ IsNumber(toks[1]) /\ IsNumber(toks[2]))
                => result = Ok(<<NumberValue(toks[1]), NumberValue(toks[2])>>)
           /\ (Len(toks) = 1 \/ Len(toks) >= 3) => result = InvalidResponse
           /\ (Len(toks) = 2 /\ ~(IsNumber(toks[1]) /\ IsNumber(toks[2])))
                => result.kind = "ParseError"

C13_Witness ==
    /\ EchoedStatus
    /\ op.name = "position"
    /\ ResponseLines[2] = Words3(Str_OK, Str_12_500, Str_m3_250)
    /\ result = Ok(<<F32(FALSE, 12500), F32(TRUE, 3250)>>)

\* the positions a caller passes in this model, with their three-decimal text
PositionTable ==
    { <<F32(FALSE, 0), <<"0", ".", "0", "0", "0">>>>,
      <<F32(TRUE, 0), <<"-", "0", ".", "0", "0", "0">>>>,
      <<F32(FALSE, 30000), <<"3", "0", ".", "0", "0", "0">>>>,
      <<F32(TRUE, 30000), <<"-", "3", "0", ".", "0", "0", "0">>>>,
      <<F32(FALSE, 1500), <<"1", ".", "5", "0", "0">>>>,
      <<F32(TRUE, 1500), <<"-", "1", ".", "5", "0", "0">>>> }

ThreeDecimals(x) == (CHOOSE e \in PositionTable : e[1] = x)[2]

Negation(x) == F32(~x.neg, x.milli)

\* C14: set_position_horizontal(x) transmits DHOR with the negation of x in
\* three decimals as sole argument, set_position_vertical(x) transmits DVER
\* with x itself in three decimals.
C14_PositionArguments ==
    Sent =>
      /\ op.name = "set_position_vertical"
           => written = Line(Words2(<<"D", "V", "E", "R">>, ThreeDecimals(op.pos)))
      /\ op.name = "set_position_horizontal"
           => written = Line(Words2(<<"D", "H", "O", "R">>, ThreeDecimals(Negation(op.pos))))

C14_Witness ==
    /\ Sent
    /\ op.name = "set_position_horizontal"
    /\ op.pos = F32(FALSE, 30000)
    /\ written = <<"D", "H", "O", "R", " ", "-", "3", "0", ".", "0", "0", "0", "\n">>

\* C15: calibrated with a correct echo returns true for the status line
\* "OK true", false for "OK false", and fails with ParseError for status OK
\* with any other single value token.
C15_CalibratedDecoding ==
    (/\ EchoedStatus
     /\ op.name = "calibrated"
     /\ StartsWith(ResponseLines[2], Str_OK \o <<SP>>)
     /\ Len(OkTokens(ResponseLines[2])) = 1)
    => LET tok == OkTokens(ResponseLines[2])[1]
       IN  /\ tok = <<"t", "r", "u", "e">> => result = Ok(<<TRUE>>)
           /\ tok = <<"f", "a", "l", "s", "e">> => result = Ok(<<FALSE>>)
           /\ tok \notin {<<"t", "r", "u", "e">>, <<"f", "a", "l", "s", "e">>}
                => result.kind = "ParseError"

C15_Witness ==
    /\ EchoedStatus
    /\ op.name = "calibrated"
    /\ ResponseLines[2] = Words2(Str_OK, Str_maybe)
    /\ result.kind = "ParseError"

\* the first whitespace-delimited token of a line, empty when there is none
FirstToken(line) ==
    LET toks == SplitAsciiWhitespace(line)
    IN  IF toks = <<>> THEN <<>> ELSE toks[1]

\* C16: with a correct echo, a status line whose first whitespace-delimited
\* token is neither OK nor ERR fails with InvalidResponse, and the line is
\* taken as OK (as ERR) whenever that token is OK (is ERR), whatever
\* whitespace follows it.  Status lines that are the bare token are left
\* to C1 and C11.
C16_StatusByFirstToken ==
    (EchoedStatus /\ ResponseLines[2] \notin {Str_OK, Str_ERR})
    => LET status == FirstToken(ResponseLines[2])
       IN  /\ status \notin {Str_OK, Str_ERR} => result = InvalidResponse
           /\ status = Str_ERR => result.kind = "ResponseError"
           /\ (status = Str_OK /\ op.name \in UnitOps) => result = Ok(<<>>)

\* C17: no operation aborts: whatever the transport returns, the call ends
\* with success or with one of the Error values.
C17_NoAbort == result.kind # "Panic"

\* the next read returns bytes that are not valid text by themselves
NextChunkBad ==
    /\ pc = "read"
    /\ pending # <<>>
    /\ IF pending = <<>> THEN FALSE
       ELSE Head(pending).res = "data" /\ ~Utf8Valid(Head(pending).bytes)

\* C18: a read that returns a chunk that is not valid text by itself ends
\* the call at once with InvalidResponse, nothing of the chunk is kept, and
\* the call reads no more.
C18_BadChunkFailsAtOnce ==
    [][(NextChunkBad =>
          (/\ pc' = "done"
           /\ result' = InvalidResponse
           /\ events' = Append(events, "read")
           /\ response_string' = response_string))
       /\ ((pc = "done" /\ ended = "bad_chunk") => pc' \in {"done", "send"})]_vars

\* a two-byte character split across two reads: the whole reply is valid text
C18_Witness ==
    /\ pc = "done"
    /\ ended = "bad_chunk"
    /\ result = InvalidResponse
    /\ Len(own_reply) = 2
    /\ Utf8Valid(TextOf(own_reply))
    /\ pending # <<>>

\* the next read returns zero bytes or fails
NextReadEnds ==
    /\ pc = "read"
    /\ IF pending = <<>> THEN TRUE ELSE Head(pending).res \in {"idle", "err"}

\* the next read returns a chunk of valid text
NextChunkGood ==
    /\ pc = "read"
    /\ IF pending = <<>> THEN FALSE
       ELSE Head(pending).res = "data" /\ Utf8Valid(Head(pending).bytes)

\* C19: the read loop terminates.  Once the request is sent the call comes
\* to its end; the accumulator starts empty, each chunk read is appended to
\* it in order, the first read that returns zero bytes or fails ends the
\* loop with the accumulator unchanged, and the call reads no more.
C19_ReadLoopTerminates ==
    /\ (pc = "read") ~> (pc = "done")
    /\ [][/\ (pc = "send" /\ pc' = "read") => response_string' = <<>>
          /\ NextChunkGood =>
               (/\ pc' = "read"
                /\ response_string' = response_string \o Head(pending).bytes
                /\ events' = Append(events, "read"))
          /\ NextReadEnds =>
               (/\ pc' = "done"
                /\ response_string' = response_string
                /\ Len(events') = Len(events) + 1)
          /\ (pc = "done") => pc' \in {"done", "send"}]_vars

\* the device pauses in the middle of its reply: the loop stops at the
\* zero-byte read and leaves the rest unread
C19_Witness ==
    /\ pc = "done"
    /\ ended = "idle"
    /\ Len(own_reply) = 3
    /\ own_reply[2] = Idle
    /\ response_string = own_reply[1].bytes
    /\ pending = <<own_reply[3]>>

\* the call got past the read loop: it ended at a read of zero bytes or at a
\* failed read
LoopEnded == pc = "done" /\ ended \in {"idle", "read_err"}

\* what the operation returns for a reply made of lines 0 and 1 of the
\* response alone
TwoLineOutcome ==
    With(ValidateText(Line(ResponseLines[1]) \o Line(ResponseLines[2]), command_string),
         LAMBDA r : Decode(op.name, r))

\* C20: lines after line 1 do not influence the result. Whatever follows
\* the first two lines of the text a call has read, the call returns what it
\* returns for those two lines alone, so two replies with the same line 0
\* and line 1 get the same outcome.
C20_LaterLinesIgnored ==
    (LoopEnded /\ Len(ResponseLines) >= 2) => result = TwoLineOutcome

C20_Witness ==
    /\ Validated
    /\ op.name = "position"
    /\ Len(ResponseLines) = 3
    /\ ResponseLines[3] = Str_JUNK
    /\ result.kind = "Ok"

====
